---- MODULE Spec2Model ----
(***************************************************************************)
(* Model of validate_NMS.py: main() reads the ALFA parameters, loads the   *)
(* pickled detections of every detector, checks them, and validate_ALFA    *)
(* filters and fuses every image before handing the result to the mAP      *)
(* computation.                                                            *)
(*                                                                         *)
(* Encoding.  Scores and thresholds are integers in tenths (5 is 0.5).     *)
(* Python's 0-based positions become 1-based: detector key k of the code   *)
(* is key k+1 here, image j of the code is image j+1.  A bounding box is   *)
(* the token <<key, image, index>> of the place it was read from, so that  *)
(* a box that moves away from its label or class scores is visible.        *)
(***************************************************************************)
EXTENDS Integers, Sequences, FiniteSets, TLC

VARIABLES pc, alfa_parameters_dict, detectors_full_detections, j, imagename,
          bounding_boxes, labels, class_scores, alfa_full_detections,
          time_count, alfa_calls, map_calls, exit_status, run, first_run

vars == <<pc, alfa_parameters_dict, detectors_full_detections, j, imagename,
          bounding_boxes, labels, class_scores, alfa_full_detections,
          time_count, alfa_calls, map_calls, exit_status, run, first_run>>

(* ---- bounds of the model ---- *)
MaxDetectors == 2
MaxImages == 2
MaxDets == 2

(* ---- inputs ---- *)

\* One detection as a detector reports it: a label (index into the class
\* scores without the leading no-object slot) and the class-score vector
\* <<no object, class 0, class 1>>.
DetPool ==
  { [l |-> 0, cs |-> <<1, 8, 1>>],
    [l |-> 1, cs |-> <<1, 4, 5>>] }

RECURSIVE SeqsUpTo(_, _)
SeqsUpTo(S, n) ==
  IF n = 0 THEN { <<>> }
  ELSE LET shorter == SeqsUpTo(S, n - 1)
       IN  shorter \cup { Append(s, x) : s \in { t \in shorter : Len(t) = n - 1 }, x \in S }

DetLists == SeqsUpTo(DetPool, MaxDets)

\* The image name detector `key` may report at position p: the first
\* detector names image p "p"; another detector reports the same name or a
\* different file name (0).
NamesAt(key, p) == IF key = 1 THEN {p} ELSE {p, 0}

Box(key, p, i) == <<key, p, i>>

\* (image filename, bounding boxes, labels, class_scores) as pickled.
ImageTuple(key, p, name, dets) ==
  << name,
     [i \in 1..Len(dets) |-> Box(key, p, i)],
     [i \in 1..Len(dets) |-> dets[i].l],
     [i \in 1..Len(dets) |-> dets[i].cs] >>

RECURSIVE FileContents(_, _)
FileContents(key, n) ==
  IF n = 0 THEN { <<>> }
  ELSE LET shorter == FileContents(key, n - 1)
       IN  shorter \cup
           { Append(s, ImageTuple(key, n, name, dets)) :
               s \in { t \in shorter : Len(t) = n - 1 },
               name \in NamesAt(key, n), dets \in DetLists }

BaseParameters ==
  [ tau |-> 5, gamma |-> 5, epsilon |-> 2,
    bounding_box_fusion_method |-> "AVERAGE",
    class_scores_fusion_method |-> "AVERAGE",
    add_empty_detections |-> TRUE, same_labels_only |-> TRUE,
    confidence_style |-> "LABEL", use_BC |-> TRUE,
    max_1_box_per_detector |-> TRUE, single |-> TRUE,
    select_threshold |-> 5, detections_filenames |-> 0 ]

ParameterVariants ==
  { BaseParameters,
    [BaseParameters EXCEPT !.confidence_style = "ONE MINUS NO OBJECT"],
    [BaseParameters EXCEPT !.select_threshold = 8],
    [BaseParameters EXCEPT !.select_threshold = 12],
    [BaseParameters EXCEPT !.bounding_box_fusion_method = "MEDIAN"] }

\* What the JSON file may hold.
ParameterFiles ==
  { [p EXCEPT !.detections_filenames = n] : p \in ParameterVariants, n \in 0..MaxDetectors }

(* ---- state after start-up ---- *)
Init ==
  /\ pc = "parse"
  /\ alfa_parameters_dict = BaseParameters
  /\ detectors_full_detections = <<>>
  /\ j = 0
  /\ imagename = 0
  /\ bounding_boxes = <<>>
  /\ labels = <<>>
  /\ class_scores = <<>>
  /\ alfa_full_detections = <<>>
  /\ time_count = 0
  /\ alfa_calls = <<>>
  /\ map_calls = <<>>
  /\ exit_status = 0
  /\ run = 1
  /\ first_run = [image |-> 0, entry |-> <<>>, time_count |-> 0]

(* ---- main: reading the inputs ---- *)

parse_alfa_parameters_json ==
  /\ pc = "parse"
  /\ \E p \in ParameterFiles : alfa_parameters_dict' = p
  /\ pc' = "load"
  /\ UNCHANGED <<detectors_full_detections, j, imagename, bounding_boxes, labels,
                 class_scores, alfa_full_detections, time_count, alfa_calls,
                 map_calls, exit_status>>
  /\ UNCHANGED <<run, first_run>>

\* One pass of the loop that unpickles detections_filenames[i].
LoadDetections ==
  /\ pc = "load"
  /\ Len(detectors_full_detections) < alfa_parameters_dict.detections_filenames
  /\ \E content \in FileContents(Len(detectors_full_detections) + 1, MaxImages) :
        detectors_full_detections' = Append(detectors_full_detections, content)
  /\ UNCHANGED <<pc, alfa_parameters_dict, j, imagename, bounding_boxes, labels,
                 class_scores, alfa_full_detections, time_count, alfa_calls,
                 map_calls, exit_status>>
  /\ UNCHANGED <<run, first_run>>

SizeCheckFailsLess(d) == \E i \in 2..Len(d) : Len(d[i]) < Len(d[1])

\* check_size_sim is False
SizeCheckFails(d) == \E i \in 2..Len(d) : Len(d[i]) # Len(d[1])

NoDetectorLoadedNever(d) == FALSE

NoDetectorLoaded(d) == Len(d) = 0

\* The checks that end read_detectors_full_detections.
CheckDetections ==
  /\ pc = "load"
  /\ Len(detectors_full_detections) = alfa_parameters_dict.detections_filenames
  /\ IF NoDetectorLoaded(detectors_full_detections)
       THEN /\ pc' = "exited"
            /\ exit_status' = 1
       ELSE IF SizeCheckFails(detectors_full_detections)
       THEN /\ pc' = "exited"
            /\ exit_status' = 1
       ELSE /\ pc' = "loop"
            /\ exit_status' = exit_status
  /\ UNCHANGED <<alfa_parameters_dict, detectors_full_detections, j, imagename,
                 bounding_boxes, labels, class_scores, alfa_full_detections,
                 time_count, alfa_calls, map_calls>>
  /\ UNCHANGED <<run, first_run>>

(* ---- validate_ALFA ---- *)

\* ALFA.ALFA_result: a function of the filtered boxes, the filtered class
\* scores and the eleven parameters it is passed, and of nothing else.  The
\* fused arrays are kept as terms over those arguments.
ALFA_result(bb, cs, p) ==
  LET args == << bb, cs, p.tau, p.gamma, p.bounding_box_fusion_method,
                 p.class_scores_fusion_method, p.add_empty_detections, p.epsilon,
                 p.same_labels_only, p.confidence_style, p.use_BC,
                 p.max_1_box_per_detector, p.single >>
  IN  [ bounding_boxes |-> << <<"fused box", args>> >>,
        labels         |-> << <<"fused label", args>> >>,
        class_scores   |-> << <<"fused class scores", args>> >> ]

ImageEntryOfFirst(key, jj) == detectors_full_detections[key][1]

\* detectors_full_detections[key][j]
ImageEntry(key, jj) == detectors_full_detections[key][jj]

\* scores = np.array([cl_sc[i, 1:][l[i]] for i in range(len(l))])
Scores(l, cl_sc) == [i \in 1..Len(l) |-> cl_sc[i][l[i] + 2]]

\* indices = np.where(scores > select_threshold)[0]
Indices(scores, threshold) == { i \in 1..Len(scores) : scores[i] > threshold }

RECURSIVE TakeFrom(_, _, _)
TakeFrom(arr, indices, i) ==
  IF i > Len(arr) THEN <<>>
  ELSE (IF i \in indices THEN <<arr[i]>> ELSE <<>>) \o TakeFrom(arr, indices, i + 1)

\* arr[indices], indices ascending as np.where gives them
Take(arr, indices) == TakeFrom(arr, indices, 1)

\* The indices kept for detector key at image jj.
KeptIndices(key, jj) ==
  LET e == ImageEntry(key, jj)
  IN  Indices(Scores(e[3], e[4]), alfa_parameters_dict.select_threshold)

\* The keys that get an entry in the three dictionaries.
KeptKeys(jj) ==
  { key \in DOMAIN detectors_full_detections :
      /\ Len(ImageEntry(key, jj)[2]) > 0
      /\ KeptIndices(key, jj) # {} }

LoopDoneOneEarly == j >= Len(detectors_full_detections[1]) - 1

\* for j in range(len(detectors_full_detections[0])) has no image left
LoopDone == j >= Len(detectors_full_detections[1])

\* The loop body up to the three dictionaries being filled.
FilterImage ==
  /\ pc = "loop"
  /\ ~LoopDone
  /\ imagename' = detectors_full_detections[1][j + 1][1]
  /\ bounding_boxes' =
       [key \in KeptKeys(j + 1) |-> Take(ImageEntry(key, j + 1)[2], KeptIndices(key, j + 1))]
  /\ labels' =
       [key \in KeptKeys(j + 1) |-> Take(ImageEntry(key, j + 1)[3], KeptIndices(key, j + 1))]
  /\ class_scores' =
       [key \in KeptKeys(j + 1) |-> Take(ImageEntry(key, j + 1)[4], KeptIndices(key, j + 1))]
  /\ pc' = "fuse"
  /\ UNCHANGED <<alfa_parameters_dict, detectors_full_detections, j,
                 alfa_full_detections, time_count, alfa_calls, map_calls, exit_status>>
  /\ UNCHANGED <<run, first_run>>

NothingToFuseNever(bb) == FALSE

\* not (bounding_boxes != {})
NothingToFuse(bb) == DOMAIN bb = {}

\* The rest of the loop body: fuse or emit the empty arrays, then append.
FuseImage ==
  /\ pc = "fuse"
  /\ IF ~NothingToFuse(bounding_boxes)
       THEN LET r == ALFA_result(bounding_boxes, class_scores, alfa_parameters_dict)
            IN  /\ bounding_boxes' = r.bounding_boxes
                /\ labels' = r.labels
                /\ class_scores' = r.class_scores
                /\ time_count' = time_count + 1
                /\ alfa_calls' = Append(alfa_calls,
                                        [ image |-> j + 1,
                                          bounding_boxes |-> bounding_boxes,
                                          labels |-> labels,
                                          class_scores |-> class_scores ])
       ELSE /\ bounding_boxes' = <<>>
            /\ labels' = <<>>
            /\ class_scores' = <<>>
            /\ UNCHANGED <<time_count, alfa_calls>>
  /\ alfa_full_detections' =
       Append(alfa_full_detections, <<imagename, bounding_boxes', labels', class_scores'>>)
  /\ j' = j + 1
  /\ pc' = "loop"
  /\ UNCHANGED <<alfa_parameters_dict, detectors_full_detections, imagename,
                 map_calls, exit_status>>
  /\ UNCHANGED <<run, first_run>>

\* The loop is over; compute_map is called on the collected list.
ComputeMap ==
  /\ pc = "loop"
  /\ LoopDone
  /\ map_calls' = Append(map_calls, alfa_full_detections)
  /\ pc' = "print"
  /\ UNCHANGED <<alfa_parameters_dict, detectors_full_detections, j, imagename,
                 bounding_boxes, labels, class_scores, alfa_full_detections,
                 time_count, alfa_calls, exit_status>>
  /\ UNCHANGED <<run, first_run>>

\* print('Average ensemble time: ', float(total_time) / float(time_count))
\* and the return: the division raises ZeroDivisionError when time_count is 0.
PrintAndReturn ==
  /\ pc = "print"
  /\ IF time_count = 0
       THEN /\ pc' = "crashed"
            /\ exit_status' = 1
       ELSE /\ pc' = "returned"
            /\ exit_status' = 0
  /\ UNCHANGED <<alfa_parameters_dict, detectors_full_detections, j, imagename,
                 bounding_boxes, labels, class_scores, alfa_full_detections,
                 time_count, alfa_calls, map_calls>>
  /\ UNCHANGED <<run, first_run>>

(* ---- a second call of validate_ALFA ---- *)

\* The files of n images detector key could have held instead: image p as
\* it is in old, any detections for every other image q, named q.
FileVariants(key, old, p, n) ==
  { [q \in 1..n |-> IF q = p THEN old[p] ELSE ImageTuple(key, q, q, other[q])] :
      other \in [(1..n) \ {p} -> DetLists] }

RECURSIVE InputVariants(_, _, _, _)
InputVariants(dd, p, n, k) ==
  IF k = 0 THEN { <<>> }
  ELSE { Append(s, f) : s \in InputVariants(dd, p, n, k - 1),
                        f \in FileVariants(k, dd[k], p, n) }

\* validate_ALFA has ended and is called again with the same parameters on
\* detections that agree with the first call's on image p and are
\* arbitrary elsewhere; the entry the first call emitted for p and its
\* final time_count are kept.
\* Lines 121-126 run again: a new ALFA, time_count 0, an empty list, the
\* locals of the loop not yet bound.
SecondRun ==
  /\ pc \in {"returned", "crashed"}
  /\ run = 1
  /\ \E p \in 1..Len(alfa_full_detections) :
       \E n \in p..MaxImages :
         \E dd \in InputVariants(detectors_full_detections, p, n,
                                 Len(detectors_full_detections)) :
           /\ detectors_full_detections' = dd
           /\ first_run' = [ image |-> p, entry |-> alfa_full_detections[p],
                             time_count |-> time_count ]
  /\ run' = 2
  /\ pc' = "loop"
  /\ j' = 0
  /\ alfa_full_detections' = <<>>
  /\ time_count' = 0
  /\ alfa_calls' = <<>>
  /\ map_calls' = <<>>
  /\ exit_status' = 0
  /\ imagename' = 0
  /\ bounding_boxes' = <<>>
  /\ labels' = <<>>
  /\ class_scores' = <<>>
  /\ UNCHANGED alfa_parameters_dict

Next ==
  \/ parse_alfa_parameters_json
  \/ LoadDetections
  \/ CheckDetections
  \/ FilterImage
  \/ FuseImage
  \/ ComputeMap
  \/ PrintAndReturn

Spec == Init /\ [][Next]_vars

NextPair == Next \/ SecondRun

SpecPair == Init /\ [][NextPair]_vars

(* ---- notions the properties share ---- *)

d == detectors_full_detections

NothingProcessed ==
  /\ j = 0
  /\ alfa_full_detections = <<>>
  /\ alfa_calls = <<>>
  /\ map_calls = <<>>

SizesDiffer == \E a \in DOMAIN d, b \in DOMAIN d : Len(d[a]) # Len(d[b])

NamesDiffer ==
  \E a \in DOMAIN d, b \in DOMAIN d :
    \E p \in 1..Len(d[a]) : p <= Len(d[b]) /\ d[a][p][1] # d[b][p][1]

\* The score the filter compares: the class score at the label, the
\* no-object slot skipped.
LabelScore(e, i) == e[4][i][e[3][i] + 2]

\* Confidence per confidence_style, section 4.3 of the specification.
Confidence(style, e, i) ==
  IF style = "LABEL" THEN LabelScore(e, i) ELSE 10 - e[4][i][1]

\* Raw detections of entry e that pass the filter as the code applies it.
Passing(e) == { i \in 1..Len(e[2]) : LabelScore(e, i) > alfa_parameters_dict.select_threshold }

Range(f) == { f[x] : x \in DOMAIN f }

(* ---- C1 ---- *)

\* C1: when two detectors report different numbers of images the run never
\* gets past read_detectors_full_detections: it ends with exit status 1 and
\* no image is filtered, fused or evaluated.
C1_SizeMismatchAborts ==
  SizesDiffer =>
    /\ pc \in {"load", "exited"}
    /\ (pc = "exited" => exit_status # 0)
    /\ NothingProcessed

C1_Witness ==
  /\ pc = "exited"
  /\ exit_status = 1
  /\ Len(d) >= 2
  /\ Len(d[2]) > Len(d[1])

(* ---- C2 ---- *)

\* C2: when the detectors agree on the number of images but a position
\* holds different image names, the run aborts; whenever an image is
\* fused, every detector's entry for it carries the emitted image name.
C2_NameMismatchAborts ==
  /\ (NamesDiffer /\ ~SizesDiffer) => (pc \in {"load", "exited"} /\ NothingProcessed)
  /\ pc = "fuse" => \A key \in DOMAIN d : d[key][j + 1][1] = imagename

(* ---- C3 ---- *)

\* C3: the keep/drop decision of the filter agrees, for every detection and
\* for both confidence styles, with the confidence of the configured
\* confidence_style compared against select_threshold.
C3_FilterUsesConfidenceStyle ==
  pc = "fuse" =>
    \A key \in DOMAIN d :
      LET e == d[key][j + 1]
      IN  \A i \in 1..Len(e[2]) :
            (key \in DOMAIN bounding_boxes /\ e[2][i] \in Range(bounding_boxes[key]))
              <=> (Confidence(alfa_parameters_dict.confidence_style, e, i)
                     > alfa_parameters_dict.select_threshold)

(* ---- C4 ---- *)

\* The detections of entry e that must reach the fuser: confidence (of the
\* configured style) strictly above select_threshold.
MustReachFuser(e) ==
  { i \in 1..Len(e[2]) :
      Confidence(alfa_parameters_dict.confidence_style, e, i)
        > alfa_parameters_dict.select_threshold }

\* Dictionary entry key holds exactly the detections `kept` of e, once
\* each, box, label and class scores of one detection at one position.
HoldsExactly(key, e, kept) ==
  /\ Len(bounding_boxes[key]) = Cardinality(kept)
  /\ Len(labels[key]) = Cardinality(kept)
  /\ Len(class_scores[key]) = Cardinality(kept)
  /\ Range(bounding_boxes[key]) = { e[2][i] : i \in kept }
  /\ \A m \in 1..Len(bounding_boxes[key]) :
       \E i \in kept : /\ bounding_boxes[key][m] = e[2][i]
                       /\ labels[key][m] = e[3][i]
                       /\ class_scores[key][m] = e[4][i]

\* C4: what the fuser is handed for a detector is exactly its raw
\* detections whose confidence is strictly above select_threshold, boxes,
\* labels and class scores index-aligned, and a detector without a
\* surviving detection is absent from the three dictionaries.
C4_FilterExact ==
  pc = "fuse" =>
    /\ DOMAIN labels = DOMAIN bounding_boxes
    /\ DOMAIN class_scores = DOMAIN bounding_boxes
    /\ \A key \in DOMAIN d :
         LET e == d[key][j + 1]
         IN  IF MustReachFuser(e) = {}
               THEN key \notin DOMAIN bounding_boxes
               ELSE key \in DOMAIN bounding_boxes /\ HoldsExactly(key, e, MustReachFuser(e))

\* The same statement with the confidence the filter itself computes (the
\* class score at the label): this one the code satisfies.
FilterExactOnLabelScore ==
  pc = "fuse" =>
    /\ DOMAIN labels = DOMAIN bounding_boxes
    /\ DOMAIN class_scores = DOMAIN bounding_boxes
    /\ \A key \in DOMAIN d :
         LET e == d[key][j + 1]
         IN  IF Passing(e) = {}
               THEN key \notin DOMAIN bounding_boxes
               ELSE key \in DOMAIN bounding_boxes /\ HoldsExactly(key, e, Passing(e))

(* ---- C5 ---- *)

CallsFor(p) == { c \in 1..Len(alfa_calls) : alfa_calls[c].image = p }

\* C5: an image none of whose detections passes the filter is emitted with
\* empty boxes, labels and class scores and ALFA_result is not invoked for
\* it; any other image has exactly one invocation, whose result is emitted.
C5_FuseOnlyNonEmpty ==
  \A p \in 1..Len(alfa_full_detections) :
    LET entry == alfa_full_detections[p]
    IN  IF \A key \in DOMAIN d : Passing(d[key][p]) = {}
          THEN /\ entry[2] = <<>> /\ entry[3] = <<>> /\ entry[4] = <<>>
               /\ CallsFor(p) = {}
          ELSE /\ Cardinality(CallsFor(p)) = 1
               /\ \A c \in CallsFor(p) :
                    LET r == ALFA_result(alfa_calls[c].bounding_boxes,
                                         alfa_calls[c].class_scores, alfa_parameters_dict)
                    IN  /\ entry[2] = r.bounding_boxes
                        /\ entry[3] = r.labels
                        /\ entry[4] = r.class_scores

C5_Witness ==
  /\ Len(alfa_full_detections) = 2
  /\ alfa_full_detections[1][2] = <<>>
  /\ Len(d[1][1][2]) > 0
  /\ CallsFor(2) # {}

(* ---- C6 ---- *)

ValidParameters(p) ==
  /\ p.tau \in 0..10 /\ p.gamma \in 0..10 /\ p.epsilon \in 0..10
  /\ p.select_threshold \in 0..10
  /\ p.bounding_box_fusion_method \in
       {"MIN", "MAX", "MOST CONFIDENT", "AVERAGE", "WEIGHTED AVERAGE",
        "WEIGHTED AVERAGE FINAL LABEL"}
  /\ p.class_scores_fusion_method \in {"MOST CONFIDENT", "AVERAGE", "MULTIPLY"}

\* C6: with an unknown fusion method or a threshold outside [0,1] the run
\* is rejected before any image is filtered or fused.
C6_InvalidParametersRejected ==
  (pc # "parse" /\ ~ValidParameters(alfa_parameters_dict)) =>
    (pc \in {"load", "exited"} /\ NothingProcessed)

(* ---- C7 ---- *)

\* C7: with an empty list of detection files the run ends in
\* read_detectors_full_detections with exit status 1; nothing is fused and
\* the mAP computation is not called.
C7_NoDetectionsAborts ==
  (pc # "parse" /\ alfa_parameters_dict.detections_filenames = 0) =>
    /\ pc \in {"load", "exited"}
    /\ (pc = "exited" => exit_status # 0)
    /\ NothingProcessed

C7_Witness ==
  /\ pc = "exited"
  /\ exit_status = 1
  /\ alfa_parameters_dict.detections_filenames = 0
  /\ d = <<>>

(* ---- C8 ---- *)

\* C8: two calls of validate_ALFA with the same parameters whose
\* detections agree on an image, and are arbitrary on every other image,
\* emit the same entry for that image; time_count, the one value carried
\* from image to image, does not change it.
C8_EntryDependsOnOwnImage ==
  (run = 2 /\ Len(alfa_full_detections) >= first_run.image) =>
    alfa_full_detections[first_run.image] = first_run.entry

\* The second call has fused the shared image after an image it did not
\* fuse, while the first call fused both of its images.
C8_Witness ==
  /\ run = 2
  /\ pc = "returned"
  /\ first_run.image = 2
  /\ first_run.entry[2] # <<>>
  /\ first_run.time_count = 2
  /\ Len(alfa_full_detections) = 2
  /\ alfa_full_detections[1][2] = <<>>
  /\ time_count = 1

(* ---- C9 ---- *)

\* C9: once the inputs have passed the checks, validate_ALFA returns
\* normally: it never ends in an error, also when no image was fused.
C9_ValidateReturns == pc # "crashed"

(* ---- C10 ---- *)

\* C10: compute_map is called once, after the last image, with one entry
\* per image of the first detector, in order, each with its image name.
C10_EvaluatedOnceOnAllImages ==
  /\ Len(map_calls) <= 1
  /\ (pc \in {"print", "returned", "crashed"}) <=> (Len(map_calls) = 1)
  /\ \A c \in 1..Len(map_calls) :
       /\ j = Len(d[1])
       /\ Len(map_calls[c]) = Len(d[1])
       /\ \A p \in 1..Len(d[1]) : map_calls[c][p][1] = d[1][p][1]

C10_Witness ==
  /\ Len(map_calls) = 1
  /\ Len(map_calls[1]) = 2
  /\ map_calls[1][1][2] = <<>>
  /\ map_calls[1][2][2] # <<>>

====
